---- MODULE Spec2Model ----
(***************************************************************************)
(* A model of pygsp.graphs.Graph (src/pygsp/graphs/graph.py): the weight   *)
(* matrix and the fields derived from it, the memoized directedness and    *)
(* connectivity flags, the Laplacian and the graph traversals.             *)
(*                                                                         *)
(* Nodes are numbered 0..N-1 as in the code.  A matrix is a function       *)
(* [Nodes -> [Nodes -> value]].  An attribute the object may lack          *)
(* (hasattr) is a sequence: << >> when unset, <<v>> when set to v.         *)
(***************************************************************************)
EXTENDS Integers, Sequences, FiniteSets, TLC

\* Largest node count of the graphs whose weights are replaced or compared.
MaxN == 2
\* Largest node count of the graphs that are only traversed.
MaxNodes == 3
\* The weight of a heavy edge; a light edge has weight 1.
MaxWeight == 2

\* A position given to the layout is one of 0, 1/2, ..., MaxPos/2.
MaxPos == 1
\* The largest number of rounds of the layout.
MaxIter == 1

VARIABLES
    self,   \* the attributes of the Graph object
    op,     \* the method that ran last, with its arguments
    ret,    \* << >>, or <<v>> when the last method returned v
    err     \* "none", or the exception the last method raised

vars == <<self, op, ret, err>>

Nodes(n) == 0 .. (n - 1)

Matrices(n, values) == [Nodes(n) -> [Nodes(n) -> values]]

\* The matrix itself, where the code takes the transpose.
NoTranspose(M, n) == M

Transpose(M, n) == [i \in Nodes(n) |-> [j \in Nodes(n) |-> M[j][i]]]

Abs(x) == IF x < 0 THEN -x ELSE x

RECURSIVE RowSum(_, _, _)
\* W.sum(1)[i]: the sum of the first k entries of row i, the whole row for k = N.
RowSum(M, i, k) == IF k = 0 THEN 0 ELSE M[i][k - 1] + RowSum(M, i, k - 1)

RECURSIVE ColSum(_, _, _)
\* W.sum(0)[j]: the sum of the first k entries of column j.
ColSum(M, j, k) == IF k = 0 THEN 0 ELSE M[k - 1][j] + ColSum(M, j, k - 1)

RECURSIVE SumTo(_, _)
\* f[0] + ... + f[k-1]
SumTo(f, k) == IF k = 0 THEN 0 ELSE f[k - 1] + SumTo(f, k - 1)

\* W.nnz: the number of stored (non-zero) entries.
Nnz(M, n) == Cardinality({p \in Nodes(n) \X Nodes(n) : M[p[1]][p[2]] # 0})

HasAttr(a) == a # << >>

Val(a) == a[1]

(***************************************************************************)
(* Entries of the Laplacian.  The code computes them in floating point;    *)
(* the value num/den - sqrt(rnum/rden) is kept exactly, in lowest terms,   *)
(* so that two entries of one kind of Laplacian are equal iff the numbers  *)
(* are.  rden = 0 stands for an entry the code computes as minus infinity. *)
(***************************************************************************)
RECURSIVE GCD(_, _)
GCD(a, b) == IF b = 0 THEN a ELSE GCD(b, a % b)

\* The integer x.
IntEntry(x) == [num |-> x, den |-> 1, rnum |-> 0, rden |-> 1]

\* 0.5 * x
Half(x) == IF x % 2 = 0 THEN IntEntry(x \div 2)
           ELSE [num |-> x, den |-> 2, rnum |-> 0, rden |-> 1]

\* delta - sqrt(rnum / rden), for rnum >= 0 and rden > 0
RootEntry(delta, rnum, rden) ==
    LET h == GCD(rnum, rden)
    IN  [num |-> delta, den |-> 1, rnum |-> rnum \div h, rden |-> rden \div h]

MinusInf == [num |-> 0, den |-> 1, rnum |-> 1, rden |-> 0]

Delta(i, j) == IF i = j THEN 1 ELSE 0

\* D - W with D counting the edges of each row instead of summing their
\* weights, which the code does not compute.
CombinatorialUnweighted(M, n) ==
    [i \in Nodes(n) |-> [j \in Nodes(n) |->
        IntEntry(Delta(i, j) * Cardinality({k \in Nodes(n) : M[i][k] > 0}) - M[i][j])]]

\* L = (D - W) with D = diags(W.sum(1)).
CombinatorialUndirected(M, n) ==
    [i \in Nodes(n) |-> [j \in Nodes(n) |->
        IntEntry(Delta(i, j) * RowSum(M, i, n) - M[i][j])]]

\* 0.5 * (D2 + D2 - W - W.T): the row sums in the place of the column sums,
\* which the code does not compute.
CombinatorialDirectedRowSums(M, n) ==
    [i \in Nodes(n) |-> [j \in Nodes(n) |->
        Half(Delta(i, j) * (RowSum(M, i, n) + RowSum(M, i, n)) - M[i][j] - M[j][i])]]

\* L = 0.5 * (D1 + D2 - W - W.T) with D1 = diags(W.sum(0)), D2 = diags(W.sum(1)).
CombinatorialDirected(M, n) ==
    [i \in Nodes(n) |-> [j \in Nodes(n) |->
        Half(Delta(i, j) * (ColSum(M, i, n) + RowSum(M, i, n)) - M[i][j] - M[j][i])]]

\* L = identity(N) - D * W * D with D = diags(W.sum(1) ** -0.5).  The sparse
\* product has an entry only where W stores one; a zero row sum makes the
\* factor infinite.
NormalizedUndirected(M, n) ==
    [i \in Nodes(n) |-> [j \in Nodes(n) |->
        IF M[i][j] = 0 THEN IntEntry(Delta(i, j))
        ELSE IF RowSum(M, i, n) * RowSum(M, j, n) = 0 THEN MinusInf
        ELSE RootEntry(Delta(i, j), M[i][j] * M[i][j],
                       RowSum(M, i, n) * RowSum(M, j, n))]]

LapKinds == {"combinatorial", "normalized"}

(***************************************************************************)
(* Graph.is_directed(recompute): the memoized symmetry test of W.          *)
(* Returns the object after the call and the value returned.               *)
(***************************************************************************)
\* np.abs(W - W.T).sum() != 0
RECURSIVE AsymmetrySumSigned(_, _, _)
\* The sum of W - W.T without the absolute value, which the code does not use.
AsymmetrySumSigned(M, n, k) ==
    IF k = 0 THEN 0
    ELSE (M[(k - 1) \div n][(k - 1) % n] - M[(k - 1) % n][(k - 1) \div n])
         + AsymmetrySumSigned(M, n, k - 1)

RECURSIVE AsymmetrySum(_, _, _)
\* The sum of |W - W.T| over the first k of the n * n entries.
AsymmetrySum(M, n, k) ==
    IF k = 0 THEN 0
    ELSE Abs(M[(k - 1) \div n][(k - 1) % n] - M[(k - 1) % n][(k - 1) \div n])
         + AsymmetrySum(M, n, k - 1)

\* The flag returned whenever it is set, recompute or not, which the code
\* does not do.
is_directed_cached(g, recompute) ==
    IF HasAttr(g.directed)
    THEN [g |-> g, ret |-> Val(g.directed)]
    ELSE LET v == (AsymmetrySum(g.W, g.N, g.N * g.N) # 0)
         IN  [g |-> [g EXCEPT !.directed = <<v>>], ret |-> v]

\* The test without the assignment to _directed, which the code makes.
is_directed_unstored(g, recompute) ==
    IF HasAttr(g.directed) /\ ~recompute
    THEN [g |-> g, ret |-> Val(g.directed)]
    ELSE [g |-> g, ret |-> (AsymmetrySum(g.W, g.N, g.N * g.N) # 0)]

is_directed(g, recompute) ==
    IF HasAttr(g.directed) /\ ~recompute
    THEN [g |-> g, ret |-> Val(g.directed)]
    ELSE LET v == (AsymmetrySum(g.W, g.N, g.N * g.N) # 0)
         IN  [g |-> [g EXCEPT !.directed = <<v>>], ret |-> v]

(***************************************************************************)
(* Graph.compute_laplacian(lap_type).  Returns the object after the call   *)
(* and the exception raised, "none" when the call returns.                 *)
(***************************************************************************)
\* lap_type assigned before the test of the kind, which the code does not do.
compute_laplacian_assigning(g, kind) ==
    IF kind \notin LapKinds
    THEN [g |-> [g EXCEPT !.lap_type = kind], err |-> "ValueError"]
    ELSE [g |-> [g EXCEPT !.lap_type = kind], err |-> "none"]

compute_laplacian(g, kind) ==
    IF kind \notin LapKinds
    THEN [g |-> g, err |-> "ValueError"]
    ELSE LET g1 == [g EXCEPT !.lap_type = kind]
             r  == is_directed(g1, FALSE)
             g2 == r.g
         IN  IF r.ret
             THEN IF kind = "combinatorial"
                  THEN [g |-> [g2 EXCEPT !.L = <<CombinatorialDirected(g2.W, g2.N)>>],
                        err |-> "none"]
                  ELSE [g |-> g2, err |-> "NotImplementedError"]
             ELSE IF kind = "combinatorial"
                  THEN [g |-> [g2 EXCEPT !.L = <<CombinatorialUndirected(g2.W, g2.N)>>],
                        err |-> "none"]
                  ELSE [g |-> [g2 EXCEPT !.L = <<NormalizedUndirected(g2.W, g2.N)>>],
                        err |-> "none"]

(***************************************************************************)
(* The traversal of is_connected: a set used as a stack, popped in an      *)
(* arbitrary order.  Traverse is the set of the visited sets the loop can  *)
(* end with, over every order of popping.                                  *)
(***************************************************************************)
\* The unvisited neighbours of the start node 0 whatever v is, which the code
\* does not use.
UnvisitedOfStart(adj, n, v, visited) ==
    {idx \in Nodes(n) : adj[0][idx] /\ idx \notin visited}

\* adj_matrix[v, :].nonzero()[1] filtered by "not visited"
Unvisited(adj, n, v, visited) == {idx \in Nodes(n) : adj[v][idx] /\ idx \notin visited}

RECURSIVE Traverse(_, _, _, _)
Traverse(adj, n, visited, stack) ==
    IF stack = {} THEN {visited}
    ELSE UNION { IF v \notin visited
                 THEN Traverse(adj, n, visited \cup {v},
                               (stack \ {v}) \cup Unvisited(adj, n, v, visited \cup {v}))
                 ELSE Traverse(adj, n, visited, stack \ {v})
                 : v \in stack }

(***************************************************************************)
(* Graph.is_connected(recompute): the set of the outcomes of the call,     *)
(* each the object after the call, the exception raised and, when there is *)
(* none, the value returned.  The traversal pops 0 from set([0]) and reads *)
(* visited[0]: an IndexError on the array of length 0 of a graph without   *)
(* nodes.                                                                  *)
(***************************************************************************)
is_connected(g, recompute) ==
    IF HasAttr(g.connected) /\ ~recompute
    THEN {[g |-> g, ret |-> Val(g.connected), err |-> "none"]}
    ELSE UNION {
        IF 0 \notin Nodes(r.g.N)
        THEN {[g |-> r.g, err |-> "IndexError"]}
        ELSE
        \* one visited set per matrix of adj_matrices: [A, A.T] or [A]
        { LET v == (e[1] = Nodes(r.g.N) /\ e[2] = Nodes(r.g.N))
          IN  [g |-> [r.g EXCEPT !.connected = <<v>>], ret |-> v, err |-> "none"]
          : e \in Traverse(r.g.A, r.g.N, {}, {0})
                  \X (IF r.ret THEN Traverse(Transpose(r.g.A, r.g.N), r.g.N, {}, {0})
                      ELSE {Nodes(r.g.N)}) }
        : r \in {is_directed(g, recompute)} }

(***************************************************************************)
(* Graph.__init__(W, lap_type=..., perform_checks=True), run on the object *)
(* g: a fresh one at construction, the existing one when update_graph_attr *)
(* runs the constructor again.  The set of the outcomes of the call.       *)
(***************************************************************************)
Fresh == [N |-> 0, W |-> << >>, A |-> << >>, Ne |-> 0, d |-> << >>,
          lap_type |-> << >>, L |-> << >>, directed |-> << >>, connected |-> << >>,
          lmax |-> << >>, coords |-> << >>, info |-> << >>]

\* self.A = self.W > 0
Adjacency(M, n) == [i \in Nodes(n) |-> [j \in Nodes(n) |-> M[i][j] > 0]]

\* The weighted degree W.sum(axis=1), which the code does not store.
DegreeWeighted(g) == [i \in Nodes(g.N) |-> RowSum(g.W, i, g.N)]

\* self.d = np.asarray(self.A.sum(axis=1)).squeeze()
Degree(g) == [i \in Nodes(g.N) |-> Cardinality({j \in Nodes(g.N) : g.A[i][j]})]

\* The assignments of N, W, A, Ne and d, before compute_laplacian is called.
AssignFields(g, newW, n) ==
    LET g1 == [g EXCEPT !.N = n, !.W = newW, !.A = Adjacency(newW, n),
                        !.Ne = Nnz(newW, n)]
    IN  [g1 EXCEPT !.d = Degree(g1)]

GraphInit(g, newW, n, kind) ==
    LET g2 == AssignFields(g, newW, n)
    IN  UNION { IF r.err # "none" THEN {[g |-> r.g, err |-> r.err]}
                ELSE {[g |-> c.g, err |-> c.err] : c \in is_connected(r.g, FALSE)}
                : r \in {compute_laplacian(g2, kind)} }

(***************************************************************************)
(* Graph.subgraph(ind): sub_W = W[ind, :][:, ind], and a new Graph built   *)
(* from it.  ind is a sequence of nodes; the set of the outcomes.          *)
(***************************************************************************)
\* W[ind, :] alone, without the selection of the columns that the code makes.
SubMatrixRows(M, ind) ==
    [a \in Nodes(Len(ind)) |-> [b \in Nodes(Len(ind)) |-> M[ind[a + 1]][b]]]

SubMatrix(M, ind) ==
    [a \in Nodes(Len(ind)) |-> [b \in Nodes(Len(ind)) |-> M[ind[a + 1]][ind[b + 1]]]]

subgraph(g, ind) ==
    {c.g : c \in {x \in GraphInit(Fresh, SubMatrix(g.W, ind), Len(ind), "combinatorial")
                  : x.err = "none"}}

(***************************************************************************)
(* Graph.extract_components().                                             *)
(***************************************************************************)
\* The sequence with x put before the first element greater than it.
RECURSIVE Insert(_, _)
Insert(seq, x) ==
    IF seq = << >> THEN <<x>>
    ELSE IF x <= Head(seq) THEN <<x>> \o seq
    ELSE <<Head(seq)>> \o Insert(Tail(seq), x)

\* The list left as it was built, which the code does not return.
Unsorted(seq) == seq

\* sorted(comp)
RECURSIVE Sorted(_)
Sorted(seq) == IF seq = << >> THEN << >> ELSE Insert(Sorted(Tail(seq)), Head(seq))

\* The inner loop: the pairs of visited set and comp list it can end with,
\* over every order of popping the stack.
RECURSIVE TraverseComp(_, _, _, _, _)
TraverseComp(adj, n, visited, stack, comp) ==
    IF stack = {} THEN {[visited |-> visited, comp |-> comp]}
    ELSE UNION { IF v \notin visited
                 THEN TraverseComp(adj, n, visited \cup {v},
                                   (stack \ {v}) \cup Unvisited(adj, n, v, visited \cup {v}),
                                   Append(comp, v))
                 ELSE TraverseComp(adj, n, visited, stack \ {v}, comp)
                 : v \in stack }

\* The outer loop: the lists of graphs it can end with.  Each inner loop
\* starts from stack = set(np.nonzero(~visited)[0]), every unvisited node.
RECURSIVE Components(_, _, _)
Components(g, visited, graphs) ==
    IF visited = Nodes(g.N) THEN {graphs}
    ELSE UNION { UNION { Components(g, t.visited,
                                    Append(graphs, [G |-> sub, info |-> [orig_idx |-> t.comp]]))
                         : sub \in subgraph(g, t.comp) }
                 : t \in { [visited |-> u.visited, comp |-> Sorted(u.comp)]
                           : u \in TraverseComp(g.A, g.N, visited,
                                                Nodes(g.N) \ visited, << >>) } }

\* The outcomes of the call: the object after it, the list returned and the
\* exception raised.
extract_components(g) ==
    LET r == is_directed(g, FALSE)
    IN  IF r.ret THEN {[g |-> r.g, ret |-> << >>, err |-> "NotImplementedError"]}
        ELSE {[g |-> r.g, ret |-> <<graphs>>, err |-> "none"]
              : graphs \in Components(r.g, {}, << >>)}

\* An edge is absent or has the heavy weight.
Weights == {0, MaxWeight}

\* The state after Graph(W0, lap_type=kind) returned c, one outcome of the
\* constructor.
Constructed(c) ==
    /\ c.err = "none"
    /\ self = c.g
    /\ op = [name |-> "__init__"]
    /\ ret = << >>
    /\ err = "none"

Init ==
    \E n \in 1 .. MaxN : \E W0 \in Matrices(n, Weights) : \E kind \in LapKinds :
        \E c \in GraphInit(Fresh, W0, n, kind) : Constructed(c)

(***************************************************************************)
(* Graph.update_graph_attr(W=newW): graph_attr holds W alone, and the      *)
(* constructor runs again on the same object with it; lap_type takes the   *)
(* constructor's default, 'combinatorial'.  As in the method's docstring   *)
(* (newW = G.W; newW[1] = 1), newW is a copy of W with one row rewritten.  *)
(***************************************************************************)
UpdateRow(k) ==
    \E row \in [Nodes(self.N) -> Weights] :
        \E c \in GraphInit(self, [self.W EXCEPT ![k] = row], self.N, "combinatorial") :
            /\ self' = c.g
            /\ op' = [name |-> "update_graph_attr"]
            /\ ret' = << >>
            /\ err' = c.err

UpdateGraphAttr == \E k \in Nodes(self.N) : UpdateRow(k)

ComputeLaplacian ==
    \E kind \in LapKinds \cup {"other"} :
        LET r == compute_laplacian(self, kind)
        IN  /\ self' = r.g
            /\ op' = [name |-> "compute_laplacian", lap_type |-> kind]
            /\ ret' = << >>
            /\ err' = r.err

IsDirected ==
    \E recompute \in BOOLEAN :
        LET r == is_directed(self, recompute)
        IN  /\ self' = r.g
            /\ op' = [name |-> "is_directed", recompute |-> recompute]
            /\ ret' = <<r.ret>>
            /\ err' = "none"

IsConnected ==
    \E recompute \in BOOLEAN :
        \E r \in is_connected(self, recompute) :
            /\ self' = r.g
            /\ op' = [name |-> "is_connected", recompute |-> recompute]
            /\ ret' = IF r.err = "none" THEN <<r.ret>> ELSE << >>
            /\ err' = r.err

Next ==
    \/ UpdateGraphAttr
    \/ ComputeLaplacian
    \/ IsDirected
    \/ IsConnected

Spec == Init /\ [][Next]_vars

(***************************************************************************)
(* The connectivity test, on every graph of up to MaxNodes nodes built by  *)
(* Graph(W0), directed or not.                                             *)
(***************************************************************************)
InitTraversal ==
    \E n \in 1 .. MaxNodes : \E W0 \in Matrices(n, Weights) :
        \E c \in GraphInit(Fresh, W0, n, "combinatorial") : Constructed(c)

NextTraversal == IsConnected

SpecTraversal == InitTraversal /\ [][NextTraversal]_vars

(***************************************************************************)
(* The component extraction, on every undirected graph of up to MaxNodes   *)
(* nodes built by Graph(W0).                                               *)
(***************************************************************************)
ExtractComponents ==
    \E r \in extract_components(self) :
        /\ self' = r.g
        /\ op' = [name |-> "extract_components"]
        /\ ret' = r.ret
        /\ err' = r.err

InitComponents ==
    \E n \in 1 .. MaxNodes : \E W0 \in Matrices(n, Weights) :
        /\ \A i, j \in Nodes(n) : W0[i][j] = W0[j][i]
        /\ \E c \in GraphInit(Fresh, W0, n, "combinatorial") : Constructed(c)

NextComponents == ExtractComponents

SpecComponents == InitComponents /\ [][NextComponents]_vars

(***************************************************************************)
(* The weight-dependent computations, on every graph of up to MaxN nodes   *)
(* with absent, light and heavy edges: is_directed and compute_laplacian.  *)
(***************************************************************************)
AllWeights == {0, 1, MaxWeight}

InitWeights ==
    \E n \in 1 .. MaxN : \E W0 \in Matrices(n, AllWeights) :
        \E c \in GraphInit(Fresh, W0, n, "combinatorial") : Constructed(c)

NextWeights ==
    \/ IsDirected
    \/ ComputeLaplacian

SpecWeights == InitWeights /\ [][NextWeights]_vars

(***************************************************************************)
(* Graph.get_edge_list(): the lower triangle of W as three vectors, in the *)
(* row-major order of sparse.tril(W).nonzero().                            *)
(***************************************************************************)
RECURSIVE EdgeList(_, _, _)
\* The stored entries (i, j), j <= i, among the first k of the n * n entries.
EdgeList(M, n, k) ==
    IF k = 0 THEN << >>
    ELSE LET i == (k - 1) \div n
             j == (k - 1) % n
         IN  IF j <= i /\ M[i][j] # 0
             THEN Append(EdgeList(M, n, k - 1), [v_in |-> i, v_out |-> j, weight |-> M[i][j]])
             ELSE EdgeList(M, n, k - 1)

\* The object after the call, the value returned and the exception raised.
get_edge_list(g) ==
    LET r == is_directed(g, FALSE)
        edges == EdgeList(r.g.W, r.g.N, r.g.N * r.g.N)
    IN  IF r.ret THEN [g |-> r.g, ret |-> << >>, err |-> "NotImplementedError"]
        ELSE IF ~(r.g.Ne >= Len(edges))
             THEN [g |-> r.g, ret |-> << >>, err |-> "AssertionError"]
             ELSE [g |-> r.g, ret |-> <<edges>>, err |-> "none"]

GetEdgeList ==
    LET r == get_edge_list(self)
    IN  /\ self' = r.g
        /\ op' = [name |-> "get_edge_list"]
        /\ ret' = r.ret
        /\ err' = r.err

(***************************************************************************)
(* The operations that are not implemented for directed graphs, on graphs  *)
(* built by Graph(W0, lap_type) and changed by update_graph_attr(W=newW).  *)
(***************************************************************************)
NextUnsupported ==
    \/ UpdateGraphAttr
    \/ ComputeLaplacian
    \/ ExtractComponents
    \/ GetEdgeList

SpecUnsupported == Init /\ [][NextUnsupported]_vars

(***************************************************************************)
(* The constructor call by call: Graph(W0, lap_type, perform_checks)       *)
(* assigns the fields, calls compute_laplacian(lap_type) and, when         *)
(* perform_checks is set, is_connected().  While the constructor runs, op  *)
(* carries its arguments in the field init; the methods are called from    *)
(* outside once it has returned.                                           *)
(***************************************************************************)
InitConstruct ==
    \E n \in 1 .. MaxN : \E W0 \in Matrices(n, Weights) :
        \E kind \in LapKinds : \E checks \in BOOLEAN :
            /\ self = AssignFields(Fresh, W0, n)
            /\ op = [name |-> "__init__",
                     init |-> [lap_type |-> kind, perform_checks |-> checks]]
            /\ ret = << >>
            /\ err = "none"

InConstructor == "init" \in DOMAIN op

\* self.compute_laplacian(lap_type), line 96; an exception leaves the
\* constructor and no object is built.
CtorComputeLaplacian ==
    /\ InConstructor /\ op.name = "__init__"
    /\ LET r == compute_laplacian(self, op.init.lap_type)
       IN  /\ self' = r.g
           /\ op' = [name |-> "compute_laplacian", lap_type |-> op.init.lap_type,
                     init |-> op.init]
           /\ ret' = << >>
           /\ err' = r.err

\* if perform_checks: self.is_connected(), lines 102-104, and the return; an
\* exception leaves the constructor and no object is built.
CtorIsConnected ==
    /\ InConstructor /\ op.name = "compute_laplacian" /\ err = "none"
    /\ op.init.perform_checks
    /\ \E r \in is_connected(self, FALSE) :
           /\ self' = r.g
           /\ op' = IF r.err = "none"
                    THEN [name |-> "is_connected", recompute |-> FALSE]
                    ELSE [name |-> "is_connected", recompute |-> FALSE, init |-> op.init]
           /\ ret' = IF r.err = "none" THEN <<r.ret>> ELSE << >>
           /\ err' = r.err

\* perform_checks=False: the constructor returns without the check.
CtorReturn ==
    /\ InConstructor /\ op.name = "compute_laplacian" /\ err = "none"
    /\ ~op.init.perform_checks
    /\ self' = self
    /\ op' = [name |-> "__init__"]
    /\ ret' = << >>
    /\ err' = "none"

NextConstruct ==
    \/ CtorComputeLaplacian
    \/ CtorIsConnected
    \/ CtorReturn
    \/ ~InConstructor /\ ComputeLaplacian
    \/ ~InConstructor /\ IsDirected
    \/ ~InConstructor /\ IsConnected

SpecConstruct == InitConstruct /\ [][NextConstruct]_vars

(***************************************************************************)
(* A caller writing into G.W in place, as the docstring of                 *)
(* update_graph_attr does (newW = G.W; newW[1] = 1): row k of the stored   *)
(* matrix becomes w throughout, and no other attribute changes.            *)
(***************************************************************************)
SetRowInPlace ==
    \E k \in Nodes(self.N) : \E w \in Weights :
        /\ self' = [self EXCEPT !.W[k] = [j \in Nodes(self.N) |-> w]]
        /\ op' = [name |-> "W.__setitem__"]
        /\ ret' = << >>
        /\ err' = "none"

NextMemo ==
    \/ SetRowInPlace
    \/ IsDirected
    \/ IsConnected

SpecMemo == Init /\ [][NextMemo]_vars

(***************************************************************************)
(* Graph.estimate_lmax(recompute) and the property Graph.lmax.  _lmax is   *)
(* kept in hundredths.  sparse.linalg.eigs is an iterative solver outside  *)
(* the class: it returns an estimate of the largest eigenvalue of L, fails *)
(* to converge (ArpackNoConvergence), or raises something else, which      *)
(* estimate_lmax does not catch.  Its estimate lies between the largest    *)
(* diagonal entry of L and the largest absolute row sum of L; the two ends *)
(* of that range stand for it.                                             *)
(***************************************************************************)
RECURSIVE MaxTo(_, _)
\* np.max over f[0] .. f[k-1], for k >= 1
MaxTo(f, k) == IF k = 1 THEN f[0]
               ELSE LET m == MaxTo(f, k - 1) IN IF f[k - 1] > m THEN f[k - 1] ELSE m

\* The least c with c * c >= rnum / rden.
RootCeil(e) == CHOOSE c \in 0 .. e.rnum :
                   /\ c * c * e.rden >= e.rnum
                   /\ \A b \in 0 .. (c - 1) : b * b * e.rden < e.rnum

\* An integer at least the absolute value of the entry.
Magnitude(e) == ((Abs(e.num) + e.den - 1) \div e.den) + RootCeil(e)

\* An integer at most the entry, and at least 0.
Floor(e) == LET x == (e.num \div e.den) - RootCeil(e) IN IF x < 0 THEN 0 ELSE x

Finite(Lm, n) == \A i, j \in Nodes(n) : Lm[i][j].rden # 0

EigsRange(Lm, n) ==
    { MaxTo([i \in Nodes(n) |-> Floor(Lm[i][i])], n),
      MaxTo([i \in Nodes(n) |-> SumTo([j \in Nodes(n) |-> Magnitude(Lm[i][j])], n)], n) }

\* What eigs can do on the stored L: an estimate e, or an exception.
EigsOutcomes(g) ==
    (IF Finite(Val(g.L), g.N)
     THEN {[raised |-> "none", e |-> e] : e \in EigsRange(Val(g.L), g.N)}
     ELSE {})
    \cup {[raised |-> "ArpackNoConvergence", e |-> 0], [raised |-> "Exception", e |-> 0]}

\* Lines 684-694: the try block and the assignment of _lmax.
Estimate(g, o) ==
    IF o.raised = "none"
    THEN [g |-> [g EXCEPT !.lmax = <<101 * o.e>>], err |-> "none"]
    ELSE IF o.raised = "ArpackNoConvergence"
    THEN [g |-> [g EXCEPT !.lmax = <<200 * MaxTo(g.d, g.N)>>], err |-> "none"]
    ELSE [g |-> g, err |-> o.raised]

\* The estimate made on every call, which the code does not do.
estimate_lmax_uncached(g, recompute, o) == Estimate(g, o)

estimate_lmax(g, recompute, o) ==
    IF HasAttr(g.lmax) /\ ~recompute
    THEN [g |-> g, err |-> "none"]
    ELSE Estimate(g, o)

EstimateLmax ==
    \E recompute \in BOOLEAN : \E o \in EigsOutcomes(self) :
        LET r == estimate_lmax(self, recompute, o)
        IN  /\ self' = r.g
            /\ op' = [name |-> "estimate_lmax", recompute |-> recompute,
                      eigs |-> o.raised]
            /\ ret' = << >>
            /\ err' = r.err

\* The property lmax: estimate_lmax() when _lmax is unset, then _lmax.
ReadLmax ==
    \E o \in EigsOutcomes(self) :
        LET r == IF HasAttr(self.lmax) THEN [g |-> self, err |-> "none"]
                 ELSE estimate_lmax(self, FALSE, o)
        IN  /\ self' = r.g
            /\ op' = [name |-> "lmax"]
            /\ ret' = IF r.err = "none" THEN r.g.lmax ELSE << >>
            /\ err' = r.err

\* The eigendecomposition, which is outside the class: it stores the exact
\* largest eigenvalue of the stored L over whatever _lmax held.
ComputeFourierBasis ==
    /\ Finite(Val(self.L), self.N)
    /\ \E e \in EigsRange(Val(self.L), self.N) :
           /\ self' = [self EXCEPT !.lmax = <<100 * e>>]
           /\ op' = [name |-> "compute_fourier_basis"]
           /\ ret' = << >>
           /\ err' = "none"

(***************************************************************************)
(* The cache of the largest eigenvalue, on undirected graphs without       *)
(* self-loops of up to MaxN nodes whose row 1 is rewritten as in the       *)
(* docstring of update_graph_attr (row 0 in a graph of one node).          *)
(***************************************************************************)
InitLmax ==
    \E n \in 1 .. MaxN : \E W0 \in Matrices(n, Weights) :
        /\ \A i, j \in Nodes(n) : W0[i][j] = W0[j][i] /\ W0[i][i] = 0
        /\ \E c \in GraphInit(Fresh, W0, n, "combinatorial") : Constructed(c)

NextLmax ==
    \/ EstimateLmax
    \/ ReadLmax
    \/ ComputeFourierBasis
    \/ ComputeLaplacian
    \/ UpdateRow(IF self.N > 1 THEN 1 ELSE 0)

SpecLmax == InitLmax /\ [][NextLmax]_vars

(***************************************************************************)
(* The spring layout, Graph._fruchterman_reingold_layout, for dim = 1 and  *)
(* a given k, where every norm is an absolute value and the arithmetic is  *)
(* exact: a coordinate is a fraction <<num, den>> in lowest terms, den > 0.*)
(* <<0, 0>> is NaN and <<1, 0>>, <<-1, 0>> are the infinities, which only  *)
(* the final rescaling can produce.                                        *)
(***************************************************************************)
QNorm(n, d) == LET h == GCD(Abs(n), d) IN <<n \div h, d \div h>>

Zero == <<0, 1>>

QInt(x) == <<x, 1>>

\* The sums and products are reduced before they are multiplied out, so that
\* the intermediate integers stay small.
QAdd(a, b) == LET h == GCD(a[2], b[2])
              IN  QNorm(a[1] * (b[2] \div h) + b[1] * (a[2] \div h), (a[2] \div h) * b[2])

QSub(a, b) == QAdd(a, <<-b[1], b[2]>>)

QMul(a, b) == LET x == QNorm(a[1], b[2])
                  y == QNorm(b[1], a[2])
              IN  <<x[1] * y[1], x[2] * y[2]>>

\* a / b for b # 0
QDiv(a, b) == IF b[1] > 0 THEN QMul(a, <<b[2], b[1]>>)
              ELSE QMul(a, <<-b[2], -b[1]>>)

QLess(a, b) == LET h == GCD(a[2], b[2])
               IN  a[1] * (b[2] \div h) < b[1] * (a[2] \div h)

QAbs(a) == <<Abs(a[1]), a[2]>>

RECURSIVE QSum(_, _)
\* f[0] + ... + f[k-1]
QSum(f, k) == IF k = 0 THEN Zero ELSE QAdd(QSum(f, k - 1), f[k - 1])

RECURSIVE QMax(_, _)
\* The largest of f[0] .. f[k-1], for k >= 1
QMax(f, k) == IF k = 1 THEN f[0]
              ELSE LET m == QMax(f, k - 1) IN IF QLess(m, f[k - 1]) THEN f[k - 1] ELSE m

\* np.where(x < 0.01, low, x)
AtLeastHundredth(x, low) == IF QLess(x, <<1, 100>>) THEN low ELSE x

\* One term of line 864 for the nodes i and j:
\* delta * (k * k / distance**2 - Ai * distance / k)
Force(adj, k, pos, i, j) ==
    LET delta    == QSub(pos[i], pos[j])
        distance == AtLeastHundredth(QAbs(delta), <<1, 100>>)
    IN  QMul(delta, QSub(QDiv(QMul(k, k), QMul(distance, distance)),
                         IF adj[i][j] THEN QDiv(distance, k) ELSE Zero))

\* displacement[:, i] after the loop over the rows: 0 for a fixed node.
Displacement(adj, n, k, pos, fixed, i) ==
    IF i \in fixed THEN Zero
    ELSE QSum([j \in Nodes(n) |-> Force(adj, k, pos, i, j)], n)

\* Lines 866-868: pos += (displacement * t / length).T
Moved(x, d, t) == QAdd(x, QDiv(QMul(d, t), AtLeastHundredth(QAbs(d), <<1, 10>>)))

Round(adj, n, k, pos, fixed, t) ==
    [i \in Nodes(n) |->
        CHOOSE x \in {Moved(pos[i], d, t) : d \in {Displacement(adj, n, k, pos, fixed, i)}} :
            TRUE]

\* range(iterations)
Rounds(iterations) == iterations

RECURSIVE Iterate(_, _, _, _, _, _, _, _)
\* The rounds that remain, at temperature t cooled by dt after each.
Iterate(adj, n, k, pos, fixed, t, dt, remaining) ==
    IF remaining = 0 THEN pos
    ELSE Iterate(adj, n, k, Round(adj, n, k, pos, fixed, t), fixed,
                 QSub(t, dt), dt, remaining - 1)

\* _sparse_fruchterman_reingold(A, dim, k, pos, fixed, iterations), with pos
\* the given positions or the random ones drawn at line 836.
sparse_fruchterman_reingold(adj, n, k, pos, fixed, iterations) ==
    Iterate(adj, n, k, pos, fixed, <<1, 10>>, QDiv(<<1, 10>>, QInt(iterations + 1)),
            Rounds(iterations))

\* pos *= scale / lim for one coordinate, in floating point when lim = 0.
Scaled(c, scale, lim) ==
    IF lim # Zero THEN QMul(c, QDiv(scale, lim))
    ELSE IF c = Zero THEN <<0, 0>>
    ELSE IF QLess(Zero, c) THEN <<1, 0>> ELSE <<-1, 0>>

\* The rescaling without the shift of the origin to the mean, which the code
\* makes.
rescale_layout_uncentred(pos, n, scale) ==
    LET top == QMax(pos, n)
        lim == IF QLess(top, Zero) THEN Zero ELSE top
    IN  [i \in Nodes(n) |-> Scaled(pos[i], scale, lim)]

\* _rescale_layout(pos, scale) on the one axis.
rescale_layout(pos, n, scale) ==
    LET mean    == QDiv(QSum(pos, n), QInt(n))
        centred == [i \in Nodes(n) |-> QSub(pos[i], mean)]
        top     == QMax(centred, n)
        lim     == IF QLess(top, Zero) THEN Zero ELSE top
    IN  [i \in Nodes(n) |-> Scaled(centred[i], scale, lim)]

\* x + c, in floating point when x is not a number.
Translated(x, c) == IF x[2] = 0 THEN x ELSE QAdd(x, c)

\* The rescaling applied whether nodes are fixed or not, which the code
\* does not do.
fruchterman_reingold_layout_rescaled(g, k, pos, fixed, iterations, scale) ==
    [i \in Nodes(g.N) |->
        Translated(rescale_layout(sparse_fruchterman_reingold(g.A, g.N, k, pos, fixed,
                                                              iterations),
                                  g.N, scale)[i], Zero)]

\* Lines 815-821 with center = None: the positions returned.
fruchterman_reingold_layout(g, k, pos, fixed, iterations, scale) ==
    LET final == sparse_fruchterman_reingold(g.A, g.N, k, pos, fixed, iterations)
    IN  IF fixed = {}
        THEN [i \in Nodes(g.N) |-> Translated(rescale_layout(final, g.N, scale)[i], Zero)]
        ELSE final

\* The positions a caller gives.
GivenPositions(n) == [Nodes(n) -> {QNorm(x, 2) : x \in 0 .. MaxPos}]

\* np.random.uniform(size=(nnodes, dim)): positions in [0, 1).
RandomPositions(n) == [Nodes(n) -> {Zero, <<1, 2>>}]

\* _fruchterman_reingold_layout(dim=1, k=1, pos, fixed, iterations, scale):
\* op.pos is << >> for pos=None, and op.initial the positions the loop
\* starts from.
Layout ==
    \E given \in BOOLEAN :
    \E pos \in (IF given THEN GivenPositions(self.N) ELSE RandomPositions(self.N)) :
    \E fixed \in SUBSET Nodes(self.N) : \E iterations \in 0 .. MaxIter :
    \E scale \in {1, 2} :
        /\ self' = self
        /\ op' = [name |-> "_fruchterman_reingold_layout",
                  pos |-> IF given THEN <<pos>> ELSE << >>, initial |-> pos,
                  fixed |-> fixed, iterations |-> iterations, scale |-> scale]
        /\ ret' = <<fruchterman_reingold_layout(self, QInt(1), pos, fixed, iterations,
                                                QInt(scale))>>
        /\ err' = "none"

(***************************************************************************)
(* The layout of every undirected graph without self-loops of up to MaxN   *)
(* nodes built by Graph(W0).  The layout reads A and N alone and changes   *)
(* no attribute, so that one call on each graph shows every call.          *)
(***************************************************************************)
InitLayout ==
    \E n \in 1 .. MaxN : \E W0 \in Matrices(n, Weights) :
        /\ \A i, j \in Nodes(n) : W0[i][j] = W0[j][i] /\ W0[i][i] = 0
        /\ \E c \in GraphInit(Fresh, W0, n, "combinatorial") : Constructed(c)

NextLayout == op.name = "__init__" /\ Layout

SpecLayout == InitLayout /\ [][NextLayout]_vars

(***************************************************************************)
(* Graph.subgraph(ind) for every list of one to N nodes, in any order and  *)
(* with repetitions, on the graphs built by Graph(W0, lap_type).  The      *)
(* method changes no attribute of the parent, so that one call on each     *)
(* graph shows every call.                                                 *)
(***************************************************************************)
IndexLists(n) == UNION {[1 .. k -> Nodes(n)] : k \in 1 .. n}

Subgraph ==
    \E ind \in IndexLists(self.N) : \E sub \in subgraph(self, ind) :
        /\ self' = self
        /\ op' = [name |-> "subgraph", ind |-> ind]
        /\ ret' = <<sub>>
        /\ err' = "none"

NextSubgraph == op.name = "__init__" /\ Subgraph

SpecSubgraph == Init /\ [][NextSubgraph]_vars

(***************************************************************************)
(* A graph and a graph made from it, by subgraph(ind) or inside            *)
(* extract_components.  self is the parent; ret holds the child with the   *)
(* record of whether the rows of its W are the very lists of the parent's  *)
(* W, in which case a write into either matrix shows in both.  The later   *)
(* calls are made on the parent or on the child.                           *)
(***************************************************************************)
\* The index lists in increasing order, as extract_components passes them.
IncreasingLists(n) ==
    {ind \in IndexLists(n) : \A a, b \in DOMAIN ind : a < b => ind[a] < ind[b]}

\* The parent's W handed on as it is when every node is kept, which the code
\* does not do.
SharesRowsWhenWhole(g, ind) == ind = [k \in 1 .. g.N |-> k - 1]

\* sub_W = self.W.tocsr()[ind, :].tocsc()[:, ind] converts W and indexes it
\* with a list, each a new matrix, and lil_matrix(sub_W) converts once more:
\* no row of the child's W is a row of the parent's.
SharesRows(g, ind) == FALSE

ChildBySubgraph ==
    \E ind \in IncreasingLists(self.N) : \E sub \in subgraph(self, ind) :
        /\ self' = self
        /\ op' = [name |-> "subgraph", ind |-> ind]
        /\ ret' = <<[G |-> sub, shared |-> SharesRows(self, ind)]>>
        /\ err' = "none"

\* G = self.subgraph(comp), for one G of the list returned.
ChildByComponents ==
    \E r \in extract_components(self) :
        /\ r.err = "none"
        /\ \E i \in DOMAIN Val(r.ret) :
               /\ self' = r.g
               /\ op' = [name |-> "extract_components", ind |-> Val(r.ret)[i].info.orig_idx]
               /\ ret' = <<[G |-> Val(r.ret)[i].G,
                            shared |-> SharesRows(self, Val(r.ret)[i].info.orig_idx)]>>
               /\ err' = "none"

\* The calls made later on the graph g: a write into g.W in place, a weight
\* replacement, a Laplacian recomputation and the recomputation of the
\* caches.  inplace tells the calls that write into the rows of g.W.
Later(g) ==
    {[name |-> "W.__setitem__", inplace |-> TRUE, err |-> "none",
      g |-> [g EXCEPT !.W[k] = [j \in Nodes(g.N) |-> w]]]
     : k \in Nodes(g.N), w \in Weights}
    \cup UNION {{[name |-> "update_graph_attr", inplace |-> TRUE, err |-> c.err, g |-> c.g]
                 : c \in GraphInit(g, [g.W EXCEPT ![k] = [j \in Nodes(g.N) |-> w]],
                                   g.N, "combinatorial")}
                : k \in Nodes(g.N), w \in Weights}
    \cup {[name |-> "compute_laplacian", inplace |-> FALSE, err |-> r.err, g |-> r.g]
          : r \in {compute_laplacian(g, kind) : kind \in LapKinds}}
    \cup {[name |-> "is_connected", inplace |-> FALSE, err |-> r.err, g |-> r.g]
          : r \in is_connected(g, TRUE)}

OnParent ==
    \E m \in Later(self) :
        /\ self' = m.g
        /\ op' = [name |-> m.name, on |-> "parent"]
        /\ ret' = <<IF Val(ret).shared /\ m.inplace
                    THEN [Val(ret) EXCEPT !.G.W = m.g.W]
                    ELSE Val(ret)>>
        /\ err' = m.err

OnChild ==
    \E m \in Later(Val(ret).G) :
        /\ self' = IF Val(ret).shared /\ m.inplace
                   THEN [self EXCEPT !.W = m.g.W]
                   ELSE self
        /\ op' = [name |-> m.name, on |-> "child"]
        /\ ret' = <<[Val(ret) EXCEPT !.G = m.g]>>
        /\ err' = m.err

\* The child has just been made: one later call is made on each pair.
Created == op.name \in {"subgraph", "extract_components"}

NextParentChild ==
    \/ op.name = "__init__" /\ ChildBySubgraph
    \/ op.name = "__init__" /\ ChildByComponents
    \/ Created /\ OnParent
    \/ Created /\ OnChild

SpecParentChild == Init /\ [][NextParentChild]_vars

(***************************************************************************)
(* The constructor and the methods on the graphs of every size from none   *)
(* to MaxN nodes: W0 of shape (0, 0) passes the shape test of line 83.     *)
(***************************************************************************)
InitAnySize ==
    \E n \in 0 .. MaxN : \E W0 \in Matrices(n, Weights) :
        \E kind \in LapKinds : \E checks \in BOOLEAN :
            /\ self = AssignFields(Fresh, W0, n)
            /\ op = [name |-> "__init__",
                     init |-> [lap_type |-> kind, perform_checks |-> checks]]
            /\ ret = << >>
            /\ err = "none"

SpecAnySize == InitAnySize /\ [][NextConstruct]_vars

(***************************************************************************)
(* Graph.set_coordinates(kind).  kind is a string, [str |-> s], or an      *)
(* array, [shape |-> the lengths of its axes, data |-> what it holds].     *)
(* The numbers in an array are left out: data names where they come from.  *)
(* info is a dict, a function from its keys to "given" for a value the     *)
(* caller stored and "computed" for one that set_coordinates stored.       *)
(* Returns the object after the call and the exception raised.             *)
(***************************************************************************)
Array(shape, data) == [shape |-> shape, data |-> data]

\* ndarray.squeeze(): every axis of length 1 is dropped.
Squeeze(shape) == SelectSeq(shape, LAMBDA len : len # 1)

\* info[key] = value
With(info, key, value) ==
    [x \in DOMAIN info \cup {key} |-> IF x = key THEN value ELSE info[x]]

\* The branch kind == 'community2D', lines 327-359.  The ValueError of line
\* 329 is built and not raised; 'world_rad' not in self.info reads the
\* attribute, and self.info['node_com'] the key.
community2D(g) ==
    IF ~HasAttr(g.info) THEN [g |-> g, err |-> "AttributeError"]
    ELSE LET i0 == Val(g.info)
             i1 == IF "world_rad" \notin DOMAIN i0
                   THEN With(i0, "world_rad", "computed") ELSE i0
         IN  IF "comm_sizes" \notin DOMAIN i1 /\ "node_com" \notin DOMAIN i1
             THEN [g |-> [g EXCEPT !.info = <<i1>>], err |-> "KeyError"]
             ELSE LET i2 == IF "comm_sizes" \notin DOMAIN i1
                            THEN With(i1, "comm_sizes", "computed") ELSE i1
                      i3 == With(i2, "com_coords", "computed")
                      g3 == [g EXCEPT !.info = <<i3>>,
                                      !.coords = <<Array(<<g.N, 2>>, "community2D")>>]
                  IN  IF g.N > 0 /\ "node_com" \notin DOMAIN i3
                      THEN [g |-> g3, err |-> "KeyError"]
                      ELSE [g |-> g3, err |-> "none"]

LayoutNames ==
    {"line1D", "line2D", "ring2D", "random2D", "random3D", "spring", "community2D"}

set_coordinates(g, kind) ==
    IF "shape" \in DOMAIN kind
    THEN LET coords == Array(Squeeze(kind.shape), kind.data)
             check_1d == Len(coords.shape) = 1
             check_2d_3d == /\ Len(coords.shape) = 2
                            /\ 2 <= coords.shape[2] /\ coords.shape[2] <= 3
         IN  \* coords.shape[0] of an array without axes
             IF Len(coords.shape) = 0 THEN [g |-> g, err |-> "IndexError"]
             ELSE IF coords.shape[1] # g.N \/ ~(check_1d \/ check_2d_3d)
                  THEN [g |-> g, err |-> "ValueError"]
                  ELSE [g |-> [g EXCEPT !.coords = <<coords>>], err |-> "none"]
    ELSE IF kind.str = "line1D"
         THEN [g |-> [g EXCEPT !.coords = <<Array(<<g.N>>, kind.str)>>], err |-> "none"]
    ELSE IF kind.str \in {"line2D", "ring2D", "random2D", "spring"}
         THEN [g |-> [g EXCEPT !.coords = <<Array(<<g.N, 2>>, kind.str)>>], err |-> "none"]
    ELSE IF kind.str = "random3D"
         THEN [g |-> [g EXCEPT !.coords = <<Array(<<g.N, 3>>, kind.str)>>], err |-> "none"]
    ELSE IF kind.str = "community2D" THEN community2D(g)
    ELSE [g |-> g, err |-> "ValueError"]

\* The lengths of an axis of an array given as coordinates.
Axes == 1 .. (MaxN + 2)

\* The arrays given: without axes (a number), with one axis or with two.
Shapes == UNION {[1 .. k -> Axes] : k \in 0 .. 2}

SetCoordinates ==
    \E kind \in {[str |-> x] : x \in LayoutNames \cup {"other"}}
                \cup {Array(shape, "given") : shape \in Shapes} :
        LET r == set_coordinates(self, kind)
        IN  /\ self' = r.g
            /\ op' = [name |-> "set_coordinates", kind |-> kind]
            /\ ret' = << >>
            /\ err' = r.err

\* The dicts a caller stores in info before the call.
Infos == UNION {[keys -> {"given"}] : keys \in SUBSET {"node_com", "comm_sizes", "world_rad"}}

\* Graph(W0, coords=coords) on a symmetric W0 without self-loops, coords
\* None or an N x 2 array (lines 98-99), and, on some of the graphs,
\* G.info = info by the caller.
InitCoordinates ==
    \E n \in 1 .. MaxN : \E W0 \in Matrices(n, Weights) :
        /\ \A i, j \in Nodes(n) : W0[i][j] = W0[j][i] /\ W0[i][i] = 0
        /\ \E c \in GraphInit(Fresh, W0, n, "combinatorial") :
           \E coords \in {<< >>, <<Array(<<n, 2>>, "constructor")>>} :
           \E info \in {<< >>} \cup {<<i>> : i \in Infos} :
               /\ c.err = "none"
               /\ self = [c.g EXCEPT !.coords = coords, !.info = info]
               /\ op = [name |-> "__init__"]
               /\ ret = << >>
               /\ err = "none"

NextCoordinates ==
    \/ op.name = "__init__" /\ SetCoordinates
    \/ ComputeLaplacian

SpecCoordinates == InitCoordinates /\ [][NextCoordinates]_vars

(***************************************************************************)
(* The traversals step by step: is_connected (lines 441-461) and           *)
(* extract_components (lines 543-565), one action per pass of a loop, on   *)
(* graphs built with perform_checks=False: every graph of up to MaxN       *)
(* nodes, none included, and the symmetric ones of up to MaxNodes.  While  *)
(* a method runs, op holds its local variables: the matrices still to      *)
(* traverse (todo), visited, stack, the nodes marked in the order of       *)
(* marking (comp in extract_components), the number of pops of the         *)
(* current loop and the list of graphs built so far.                       *)
(***************************************************************************)
\* The stack replaced by the neighbours of v instead of updated with them,
\* which the code does not do.
PoppedReplacing(adj, n, visited, stack, v) ==
    IF v \notin visited
    THEN [visited |-> visited \cup {v},
          stack |-> Unvisited(adj, n, v, visited \cup {v})]
    ELSE [visited |-> visited, stack |-> stack \ {v}]

\* v = stack.pop() and the body of the loop: visited and stack after it.
Popped(adj, n, visited, stack, v) ==
    IF v \notin visited
    THEN [visited |-> visited \cup {v},
          stack |-> (stack \ {v}) \cup Unvisited(adj, n, v, visited \cup {v})]
    ELSE [visited |-> visited, stack |-> stack \ {v}]

Locals(name, step, todo, visited, stack, marked, pops, graphs) ==
    [name |-> name, step |-> step, todo |-> todo, visited |-> visited,
     stack |-> stack, marked |-> marked, pops |-> pops, graphs |-> graphs]

\* is_connected(recompute) up to the first traversal.
WalkBegin ==
    \E recompute \in BOOLEAN :
        IF HasAttr(self.connected) /\ ~recompute
        THEN /\ self' = self
             /\ op' = Locals("is_connected", "return", << >>, {}, {}, << >>, 0, << >>)
             /\ ret' = <<Val(self.connected)>>
             /\ err' = "none"
        ELSE LET r == is_directed(self, recompute)
             IN  /\ self' = r.g
                 /\ op' = Locals("is_connected", "pop",
                                 IF r.ret THEN <<"A", "A.T">> ELSE <<"A">>,
                                 {}, {0}, << >>, 0, << >>)
                 /\ ret' = << >>
                 /\ err' = "none"

\* The matrix that the running loop reads.
Traversed == IF op.todo # << >> /\ Head(op.todo) = "A.T"
             THEN Transpose(self.A, self.N) ELSE self.A

\* One pass of "while len(stack)", in either method; visited[v] raises for a
\* v that is no index of visited.
Pop ==
    /\ op.step = "pop" /\ op.stack # {}
    /\ \E v \in op.stack :
           IF v \notin Nodes(self.N)
           THEN /\ op' = [op EXCEPT !.step = "return", !.pops = @ + 1]
                /\ err' = "IndexError"
                /\ UNCHANGED <<self, ret>>
           ELSE LET p == Popped(Traversed, self.N, op.visited, op.stack, v)
                IN  /\ op' = [op EXCEPT !.visited = p.visited, !.stack = p.stack,
                                        !.pops = @ + 1,
                                        !.marked = IF v \in op.visited THEN @
                                                   ELSE Append(@, v)]
                    /\ UNCHANGED <<self, ret, err>>

\* is_connected after a traversal: the test of visited.all(), the next
\* matrix or the return.
WalkEnd ==
    /\ op.name = "is_connected" /\ op.step = "pop" /\ op.stack = {}
    /\ IF op.visited # Nodes(self.N)
       THEN /\ self' = [self EXCEPT !.connected = <<FALSE>>]
            /\ op' = [op EXCEPT !.step = "return"]
            /\ ret' = <<FALSE>>
       ELSE IF Len(op.todo) > 1
       THEN /\ op' = [op EXCEPT !.todo = Tail(@), !.visited = {}, !.stack = {0},
                                !.marked = << >>, !.pops = 0]
            /\ UNCHANGED <<self, ret>>
       ELSE /\ self' = [self EXCEPT !.connected = <<TRUE>>]
            /\ op' = [op EXCEPT !.step = "return"]
            /\ ret' = <<TRUE>>
    /\ err' = "none"

\* extract_components() up to the outer loop.
SplitBegin ==
    LET r == is_directed(self, FALSE)
    IN  /\ self' = r.g
        /\ op' = Locals("extract_components", IF r.ret THEN "return" ELSE "outer",
                        << >>, {}, {}, << >>, 0, << >>)
        /\ ret' = << >>
        /\ err' = IF r.ret THEN "NotImplementedError" ELSE "none"

\* "while not visited.all()": the return, or the start of an inner loop.
SplitOuter ==
    /\ op.name = "extract_components" /\ op.step = "outer"
    /\ IF op.visited = Nodes(self.N)
       THEN /\ op' = [op EXCEPT !.step = "return"]
            /\ ret' = <<op.graphs>>
       ELSE /\ op' = [op EXCEPT !.step = "pop", !.stack = Nodes(self.N) \ op.visited,
                                !.marked = << >>, !.pops = 0]
            /\ ret' = ret
    /\ UNCHANGED <<self, err>>

\* After an inner loop: comp sorted, the subgraph built and appended.
SplitAppend ==
    /\ op.name = "extract_components" /\ op.step = "pop" /\ op.stack = {}
    /\ \E sub \in subgraph(self, Sorted(op.marked)) :
           op' = [op EXCEPT !.step = "outer",
                            !.graphs = Append(@, [G |-> sub,
                                                  info |-> [orig_idx |-> Sorted(op.marked)]])]
    /\ UNCHANGED <<self, ret, err>>

InitSteps ==
    \E n \in 0 .. MaxNodes : \E W0 \in Matrices(n, Weights) :
        /\ n <= MaxN \/ \A i, j \in Nodes(n) : W0[i][j] = W0[j][i]
        /\ self = compute_laplacian(AssignFields(Fresh, W0, n), "combinatorial").g
        /\ op = [name |-> "__init__"]
        /\ ret = << >>
        /\ err = "none"

NextSteps ==
    \/ op.name = "__init__" /\ WalkBegin
    \/ op.name = "__init__" /\ SplitBegin
    \/ op.name # "__init__" /\ Pop
    \/ WalkEnd
    \/ SplitOuter
    \/ SplitAppend

SpecSteps == InitSteps /\ [][NextSteps]_vars

(***************************************************************************)
(* _sparse_fruchterman_reingold round by round (lines 844-870), on the     *)
(* graphs of the layout with dim = 1 and k = 1.  While the loop runs, ret  *)
(* holds pos, and op the arguments, t, dt, the number of rounds made and   *)
(* the temperatures that the rounds were made at.                          *)
(***************************************************************************)
\* Lines 834-847: the positions to start from, t = 0.1 and dt.
SpringBegin ==
    \E pos \in RandomPositions(self.N) : \E fixed \in SUBSET Nodes(self.N) :
    \E iterations \in 0 .. (MaxIter + 1) :
        /\ self' = self
        /\ op' = [name |-> "_sparse_fruchterman_reingold", fixed |-> fixed,
                  iterations |-> iterations, iteration |-> 0,
                  t |-> <<1, 10>>, dt |-> QDiv(<<1, 10>>, QInt(iterations + 1)),
                  applied |-> << >>]
        /\ ret' = <<pos>>
        /\ err' = "none"

\* One pass of "for iteration in range(iterations)": the positions moved at
\* temperature t, then t -= dt.
SpringRound ==
    /\ op.name = "_sparse_fruchterman_reingold"
    /\ op.iteration < Rounds(op.iterations)
    /\ self' = self
    /\ op' = [op EXCEPT !.iteration = @ + 1, !.t = QSub(@, op.dt),
                        !.applied = Append(@, op.t)]
    /\ ret' = <<Round(self.A, self.N, QInt(1), Val(ret), op.fixed, op.t)>>
    /\ err' = "none"

NextRounds ==
    \/ op.name = "__init__" /\ SpringBegin
    \/ SpringRound

SpecRounds == InitLayout /\ [][NextRounds]_vars

(***************************************************************************)
(* What the claims compare the code with: symmetry, reachability and the   *)
(* Laplacian of a weight matrix, defined without the code's caches and     *)
(* traversal.                                                              *)
(***************************************************************************)
Symmetric(M, n) == \A i, j \in Nodes(n) : M[i][j] = M[j][i]

\* The nodes that i reaches along edges of positive weight in at most k steps.
RECURSIVE Within(_, _, _, _)
Within(M, n, i, k) ==
    IF k = 0 THEN {i}
    ELSE UNION { R \cup {j \in Nodes(n) : \E u \in R : M[u][j] > 0}
                 : R \in {Within(M, n, i, k - 1)} }

Reaches(M, n, i, j) == j \in Within(M, n, i, n)

\* Every node reaches every node: connectivity when M is symmetric, strong
\* connectivity when it is not.
AllReachAll(M, n) == \A i \in Nodes(n) : Within(M, n, i, n) = Nodes(n)

\* The Laplacian of the requested kind that the documentation gives for M;
\* << >> where it gives none (normalized, directed).
LaplacianOf(M, n, kind) ==
    IF Symmetric(M, n)
    THEN IF kind = "combinatorial" THEN <<CombinatorialUndirected(M, n)>>
         ELSE <<NormalizedUndirected(M, n)>>
    ELSE IF kind = "combinatorial" THEN <<CombinatorialDirected(M, n)>>
         ELSE << >>

(***************************************************************************)
(* C1.  After update_graph_attr(W=newW) the directedness and connectivity  *)
(* caches are invalidated: the next is_directed() and the next             *)
(* is_connected(), called without recompute, return what holds for newW.   *)
(***************************************************************************)
C1_UpdateInvalidatesCaches ==
    [][ (op.name = "update_graph_attr" /\ err = "none") =>
          /\ (op'.name = "is_directed" /\ ~op'.recompute) =>
                 (Val(ret') = ~Symmetric(self'.W, self'.N))
          /\ (op'.name = "is_connected" /\ ~op'.recompute) =>
                 (Val(ret') = AllReachAll(self'.W, self'.N)) ]_vars

(***************************************************************************)
(* C2.  In every reachable state the stored L is the Laplacian of kind     *)
(* lap_type of the current W: the undirected formula when W is symmetric,  *)
(* the directed one when it is not.                                        *)
(***************************************************************************)
C2_LaplacianMatchesW ==
    self.L = LaplacianOf(self.W, self.N, self.lap_type)

(***************************************************************************)
(* C9.  After construction and after every update_graph_attr(W=newW) the   *)
(* derived fields match the current W: A[i,j] = (W[i,j] > 0), d[i] is the  *)
(* number of true entries of row i of A (so d[i] >= 0), and Ne is the      *)
(* number of non-zero entries of W.                                        *)
(***************************************************************************)
RECURSIVE CountTrue(_, _)
\* The number of TRUE among the first k entries of the row.
CountTrue(row, k) ==
    IF k = 0 THEN 0 ELSE (IF row[k - 1] THEN 1 ELSE 0) + CountTrue(row, k - 1)

ComponentsOf(M, n) == {Within(M, n, i, n) : i \in Nodes(n)}

Range(seq) == {seq[k] : k \in DOMAIN seq}

C3_OneSubgraphPerComponent ==
    (op.name = "extract_components" /\ err = "none") =>
        LET graphs == Val(ret)
        IN  /\ Len(graphs) = Cardinality(ComponentsOf(self.W, self.N))
            /\ {Range(graphs[k].info.orig_idx) : k \in DOMAIN graphs}
                   = ComponentsOf(self.W, self.N)

(***************************************************************************)
(* C4.  For an undirected graph of N >= 1 nodes the orig_idx lists of the  *)
(* subgraphs extract_components returns are each sorted ascending, are     *)
(* pairwise disjoint and cover 0..N-1; the subgraphs' node counts sum to   *)
(* N.                                                                      *)
(***************************************************************************)
Ascending(seq) == \A k \in 1 .. (Len(seq) - 1) : seq[k] < seq[k + 1]

C4_OrigIdxPartition ==
    (op.name = "extract_components" /\ err = "none") =>
        LET graphs == Val(ret)
        IN  /\ \A k \in DOMAIN graphs : Ascending(graphs[k].info.orig_idx)
            /\ \A k, m \in DOMAIN graphs :
                   k # m => Range(graphs[k].info.orig_idx)
                               \cap Range(graphs[m].info.orig_idx) = {}
            /\ UNION {Range(graphs[k].info.orig_idx) : k \in DOMAIN graphs}
                   = Nodes(self.N)
            /\ SumTo([k \in Nodes(Len(graphs)) |-> graphs[k + 1].G.N], Len(graphs))
                   = self.N

\* Components were extracted from the path 0 - 2 - 1 on three nodes.
C4_Witness ==
    /\ op.name = "extract_components" /\ err = "none"
    /\ self.N = 3
    /\ self.A[0][2] /\ self.A[2][1] /\ ~self.A[0][1]
    /\ Len(Val(ret)) >= 1

(***************************************************************************)
(* C5.  For a symmetric W with N >= 1, is_connected() computed on W is     *)
(* true iff every node is reachable from node 0 along edges of positive    *)
(* weight, that is iff the graph is connected.                             *)
(***************************************************************************)
C5_UndirectedConnectivity ==
    (op.name = "is_connected" /\ Symmetric(self.W, self.N)) =>
        /\ Val(ret) = (\A j \in Nodes(self.N) : Reaches(self.W, self.N, 0, j))
        /\ Val(ret) = AllReachAll(self.W, self.N)

\* Recomputed on the path 0 - 2 - 1, where node 1 is two steps from node 0.
C5_Witness ==
    /\ op.name = "is_connected" /\ op.recompute
    /\ self.N = 3 /\ Symmetric(self.W, self.N)
    /\ self.A[0][2] /\ self.A[2][1] /\ ~self.A[0][1]
    /\ ret = <<TRUE>>

(***************************************************************************)
(* C6.  For a non-symmetric W, is_connected() computed on W checks strong  *)
(* connectivity: it is true iff every node reaches every other node along  *)
(* directed edges of positive weight.                                      *)
(***************************************************************************)
C6_DirectedStrongConnectivity ==
    (op.name = "is_connected" /\ ~Symmetric(self.W, self.N)) =>
        (Val(ret) = AllReachAll(self.W, self.N))

\* Recomputed on the directed cycle 0 -> 1 -> 2 -> 0.
C6_Witness ==
    /\ op.name = "is_connected" /\ op.recompute
    /\ self.N = 3
    /\ self.A[0][1] /\ self.A[1][2] /\ self.A[2][0]
    /\ ~self.A[1][0] /\ ~self.A[2][1] /\ ~self.A[0][2]
    /\ ret = <<TRUE>>

(***************************************************************************)
(* C7.  As claimed: among the graphs of up to the largest node count there *)
(* is a non-symmetric one with N > 1 on which is_connected() returns true  *)
(* although some ordered pair of nodes is not mutually reachable.          *)
(***************************************************************************)
C7_TestNotSufficient ==
    LET largest == IF self.N > MaxNodes THEN self.N ELSE MaxNodes
    IN  \E n \in 2 .. largest : \E M \in Matrices(n, Weights) :
            /\ ~Symmetric(M, n)
            /\ ~AllReachAll(M, n)
            /\ \E c \in GraphInit(Fresh, M, n, "combinatorial") :
                   \E r \in is_connected(c.g, TRUE) : r.ret

(***************************************************************************)
(* C7, amended.  On a non-symmetric graph with N > 1, is_connected() is    *)
(* true iff node 0 reaches every node and every node reaches node 0, and   *)
(* whenever it is true every ordered pair of nodes is mutually reachable:  *)
(* the test is sufficient as well as necessary.                            *)
(***************************************************************************)
C7_TestIsSufficient ==
    (op.name = "is_connected" /\ ~Symmetric(self.W, self.N) /\ self.N > 1) =>
        /\ Val(ret) = (\A j \in Nodes(self.N) :
                          Reaches(self.W, self.N, 0, j) /\ Reaches(self.W, self.N, j, 0))
        /\ Val(ret) => \A i, j \in Nodes(self.N) :
                          Reaches(self.W, self.N, i, j) /\ Reaches(self.W, self.N, j, i)

\* Recomputed on 0 -> 1 -> 2 -> 0 with the chord 1 -> 0: nodes 1 and 2 reach
\* each other only through node 0 or the cycle.
C7_Witness ==
    /\ op.name = "is_connected" /\ op.recompute
    /\ self.N = 3
    /\ self.A[0][1] /\ self.A[1][2] /\ self.A[2][0] /\ self.A[1][0]
    /\ ~self.A[2][1] /\ ~self.A[0][2]
    /\ ret = <<TRUE>>

(***************************************************************************)
(* C8.  is_directed() computed on W is false for every symmetric W and     *)
(* true for every W with W[i,j] # W[j,i] for at least one pair.            *)
(***************************************************************************)
C8_DirectedIffAsymmetric ==
    op.name = "is_directed" =>
        (Val(ret) = (\E i, j \in Nodes(self.N) : self.W[i][j] # self.W[j][i]))

\* Recomputed where both directions of an edge exist with different weights.
C8_Witness ==
    /\ op.name = "is_directed" /\ op.recompute
    /\ self.N = 2
    /\ self.W[0][1] = 1 /\ self.W[1][0] > 1
    /\ ret = <<TRUE>>

(***************************************************************************)
(* C10.  For an undirected W, a non-zero diagonal included,                *)
(* compute_laplacian('combinatorial') stores L = D - W with D the diagonal *)
(* of the row sums of W, and every row of L sums to 0.                     *)
(***************************************************************************)
C10_CombinatorialRowSumsZero ==
    (/\ op.name = "compute_laplacian" /\ op.lap_type = "combinatorial"
     /\ err = "none" /\ Symmetric(self.W, self.N)) =>
        LET Lm == Val(self.L)
        IN  /\ \A i, j \in Nodes(self.N) :
                   /\ Lm[i][j].den = 1 /\ Lm[i][j].rnum = 0
                   /\ Lm[i][j].num =
                          (IF i = j THEN SumTo(self.W[i], self.N) ELSE 0) - self.W[i][j]
            /\ \A i \in Nodes(self.N) :
                   SumTo([j \in Nodes(self.N) |-> Lm[i][j].num], self.N) = 0

\* Computed for a symmetric W with a light self-loop and a heavy edge.
C10_Witness ==
    /\ op.name = "compute_laplacian" /\ op.lap_type = "combinatorial"
    /\ err = "none"
    /\ self.N = 2
    /\ self.W[0][0] = 1 /\ self.W[0][1] > 1 /\ self.W[1][0] = self.W[0][1]

C12_DirectedOpsRaise ==
    (/\ ~Symmetric(self.W, self.N)
     /\ \/ op.name = "compute_laplacian" /\ op.lap_type = "normalized"
        \/ op.name \in {"extract_components", "get_edge_list"}) =>
        (err = "NotImplementedError" /\ ret = << >>)

(***************************************************************************)
(* C13.  As claimed: compute_laplacian changes only lap_type and L; the    *)
(* directedness cache and the connectivity cache are each in the same      *)
(* state, unset or set to the same value, after the call as before it.     *)
(***************************************************************************)
OnlyLaplacianChanges ==
    /\ self'.N = self.N /\ self'.W = self.W /\ self'.A = self.A
    /\ self'.Ne = self.Ne /\ self'.d = self.d

C13_CachesUntouched ==
    [][ op'.name = "compute_laplacian" =>
          /\ OnlyLaplacianChanges
          /\ self'.directed = self.directed
          /\ self'.connected = self.connected ]_vars

(***************************************************************************)
(* C13, amended.  compute_laplacian changes only lap_type, L and, when the *)
(* directedness cache is unset (the call the constructor makes), that      *)
(* cache, which it sets to whether W is non-symmetric; a directedness      *)
(* cache that is set keeps its value, and the connectivity cache is in the *)
(* same state after the call as before it.                                 *)
(***************************************************************************)
C13_CachesKeptOrFilled ==
    [][ op'.name = "compute_laplacian" =>
          /\ OnlyLaplacianChanges
          /\ self'.connected = self.connected
          /\ IF HasAttr(self.directed) THEN self'.directed = self.directed
             ELSE op'.lap_type \in LapKinds
                      => self'.directed = <<~Symmetric(self.W, self.N)>> ]_vars

\* Called from outside on a directed graph built with perform_checks=False:
\* the directedness cache is set and the connectivity cache is unset.
C13_Witness ==
    /\ op.name = "compute_laplacian" /\ ~InConstructor
    /\ op.lap_type = "combinatorial" /\ err = "none"
    /\ self.directed = <<TRUE>>
    /\ self.connected = << >>

(***************************************************************************)
(* C14.  As claimed: is_directed() and is_connected() memoize.  Without    *)
(* recompute they return the value stored by their last evaluation even if *)
(* W was modified in place since; with recompute=True they return the      *)
(* value computed from the current W, and is_connected(recompute=True)     *)
(* also re-evaluates directedness before traversing.                       *)
(***************************************************************************)
MemoizedWithoutRecompute ==
    /\ (op'.name = "is_directed" /\ ~op'.recompute) =>
           (ret' = self.directed /\ self' = self)
    /\ (op'.name = "is_connected" /\ ~op'.recompute) =>
           (ret' = self.connected /\ self' = self)

DirectednessRecomputed ==
    /\ (op'.name = "is_directed" /\ op'.recompute) =>
           /\ Val(ret') = ~Symmetric(self.W, self.N)
           /\ self'.directed = ret'
    /\ (op'.name = "is_connected" /\ op'.recompute) =>
           /\ self'.directed = <<~Symmetric(self.W, self.N)>>
           /\ self'.connected = ret'

C14_RecomputeFromCurrentW ==
    [][ /\ MemoizedWithoutRecompute
        /\ DirectednessRecomputed
        /\ (op'.name = "is_connected" /\ op'.recompute) =>
               (Val(ret') = AllReachAll(self.W, self.N)) ]_vars

(***************************************************************************)
(* C14, amended.  As claimed for the calls without recompute and for       *)
(* is_directed(recompute=True); is_connected(recompute=True) re-evaluates  *)
(* directedness from the current W and returns the value computed by       *)
(* traversing the stored adjacency A, the positive entries of W as of the  *)
(* last construction or update_graph_attr: from node 0 along A and back    *)
(* when the current W is non-symmetric, from node 0 along A when it is     *)
(* symmetric.                                                              *)
(***************************************************************************)
\* The stored adjacency as a weight matrix.
AdjacencyWeights(g) ==
    [i \in Nodes(g.N) |-> [j \in Nodes(g.N) |-> IF g.A[i][j] THEN 1 ELSE 0]]

C14_RecomputeFromStoredA ==
    [][ /\ MemoizedWithoutRecompute
        /\ DirectednessRecomputed
        /\ (op'.name = "is_connected" /\ op'.recompute) =>
               (Val(ret') = IF ~Symmetric(self.W, self.N)
                            THEN AllReachAll(AdjacencyWeights(self), self.N)
                            ELSE Within(AdjacencyWeights(self), self.N, 0, self.N)
                                     = Nodes(self.N)) ]_vars

\* Recomputed after the edge between nodes 0 and 1 was removed from W in
\* place: A still holds the edge and the call returns True.
C14_Witness ==
    /\ op.name = "is_connected" /\ op.recompute
    /\ self.N = 2
    /\ self.A[0][1] /\ self.A[1][0]
    /\ self.W[0][1] = 0 /\ self.W[1][0] = 0
    /\ ret = <<TRUE>>

(***************************************************************************)
(* C15.  The lmax cache is unset right after construction.  Once it is     *)
(* set, estimate_lmax() without recompute is a no-op, compute_laplacian    *)
(* and weight replacement leave the cached value unchanged, reading lmax   *)
(* never unsets it, and only estimate_lmax(recompute=True) or the exact    *)
(* eigendecomposition changes it.                                          *)
(***************************************************************************)
C15_LmaxCacheFrame ==
    /\ (op.name = "__init__" => ~HasAttr(self.lmax))
    /\ [][ HasAttr(self.lmax) =>
              /\ (op'.name = "estimate_lmax" /\ ~op'.recompute) =>
                     (self' = self /\ err' = "none")
              /\ op'.name \in {"compute_laplacian", "update_graph_attr"} =>
                     self'.lmax = self.lmax
              /\ op'.name = "lmax" => (self'.lmax = self.lmax /\ ret' = self.lmax)
              /\ HasAttr(self'.lmax)
              /\ self'.lmax # self.lmax =>
                     \/ op'.name = "estimate_lmax" /\ op'.recompute
                     \/ op'.name = "compute_fourier_basis" ]_vars

\* estimate_lmax() returned without an estimate although the weights were
\* replaced since the value was cached: the value is not the one the
\* fallback would give for the degrees now stored.
C15_Witness ==
    /\ op.name = "estimate_lmax" /\ ~op.recompute
    /\ op.eigs = "ArpackNoConvergence"
    /\ HasAttr(self.lmax)
    /\ Val(self.lmax) # 200 * MaxTo(self.d, self.N)
    /\ Val(self.lmax) % 100 = 0

(***************************************************************************)
(* C16.  For an undirected graph with non-negative weights and the         *)
(* combinatorial Laplacian, the fallback value 2 * max(d) that             *)
(* estimate_lmax caches when the solver does not converge, d being the     *)
(* degree vector stored on the graph, is at least the largest eigenvalue   *)
(* of L = D - W.                                                           *)
(***************************************************************************)
\* The sequence s with its k-th element removed.
Without(s, k) == SubSeq(s, 1, k - 1) \o SubSeq(s, k + 1, Len(s))

RECURSIVE Det(_, _, _)
\* The determinant of the rows and columns of M listed, by expansion along
\* the first row listed.
Det(M, rows, cols) ==
    IF rows = << >> THEN 1
    ELSE SumTo([k \in Nodes(Len(cols)) |->
                   (IF k % 2 = 0 THEN 1 ELSE -1) * M[rows[1]][cols[k + 1]]
                   * Det(M, Tail(rows), Without(cols, k + 1))], Len(cols))

RECURSIVE Listed(_)
\* The elements of a set of numbers in increasing order.
Listed(S) == IF S = {} THEN << >>
             ELSE LET m == CHOOSE x \in S : \A y \in S : x <= y
                  IN  <<m>> \o Listed(S \ {m})

\* x M x >= 0 for every vector x, for a symmetric M: every principal minor
\* is non-negative.
PositiveSemidefinite(M, n) ==
    \A S \in SUBSET Nodes(n) : Det(M, Listed(S), Listed(S)) >= 0

\* No eigenvalue of the symmetric matrix Lm exceeds v / 100.
SpectrumAtMost(Lm, n, v) ==
    PositiveSemidefinite([i \in Nodes(n) |-> [j \in Nodes(n) |->
                             (IF i = j THEN v ELSE 0) - 100 * Lm[i][j]]], n)

C16_FallbackBoundsSpectrum ==
    (/\ op.name = "estimate_lmax" /\ op.recompute
     /\ op.eigs = "ArpackNoConvergence" /\ err = "none"
     /\ Symmetric(self.W, self.N)
     /\ self.lap_type = "combinatorial"
     /\ self.L = <<CombinatorialUndirected(self.W, self.N)>>) =>
        /\ Val(self.lmax) = 200 * MaxTo(self.d, self.N)
        /\ SpectrumAtMost([i \in Nodes(self.N) |-> [j \in Nodes(self.N) |->
                               (IF i = j THEN SumTo(self.W[i], self.N) ELSE 0)
                               - self.W[i][j]]],
                          self.N, Val(self.lmax))

(***************************************************************************)
(* C17.  As claimed: the spring layout called with iterations=0, no fixed  *)
(* nodes and the default scale and center returns the initial positions    *)
(* unchanged.                                                              *)
(***************************************************************************)
C17_ZeroIterationsUnchanged ==
    (/\ op.name = "_fruchterman_reingold_layout"
     /\ op.iterations = 0 /\ op.fixed = {} /\ op.scale = 1) =>
        \A i \in Nodes(self.N) : Val(ret)[i] = op.initial[i]

(***************************************************************************)
(* C17, amended.  With iterations=0 and no fixed nodes no displacement is  *)
(* applied, and the positions returned are the initial ones rescaled: each *)
(* coordinate minus the mean of the axis, times scale over the largest     *)
(* coordinate so centred.  They are NaN when every node starts at the same *)
(* position, as with N = 1.                                                *)
(***************************************************************************)
\* N times the distance of node i from the mean of the positions x.
Centred(x, n, i) == QSub(QMul(QInt(n), x[i]), QSum(x, n))

C17_ZeroIterationsRescaled ==
    (/\ op.name = "_fruchterman_reingold_layout"
     /\ op.iterations = 0 /\ op.fixed = {}) =>
        LET n   == self.N
            x   == op.initial
            top == QMax([i \in Nodes(n) |-> Centred(x, n, i)], n)
        IN  IF \A i, j \in Nodes(n) : x[i] = x[j]
            THEN \A i \in Nodes(n) : Val(ret)[i] = <<0, 0>>
            ELSE \A i \in Nodes(n) :
                     /\ Val(ret)[i][2] > 0
                     /\ QMul(Val(ret)[i], top) = QMul(QInt(op.scale), Centred(x, n, i))

\* No round, no fixed node, random positions 0 and 1/2: the layout returns
\* -1 and 1.
C17_Witness ==
    /\ op.name = "_fruchterman_reingold_layout"
    /\ op.iterations = 0 /\ op.fixed = {} /\ op.scale = 1 /\ op.pos = << >>
    /\ self.N = 2
    /\ op.initial[0] = <<0, 1>> /\ op.initial[1] = <<1, 2>>
    /\ Val(ret)[0] = <<-1, 1>> /\ Val(ret)[1] = <<1, 1>>

(***************************************************************************)
(* C18.  Every node listed in fixed has in the returned coordinates        *)
(* exactly its position in pos, for any adjacency and any number of        *)
(* iterations; with all nodes fixed the result is the supplied positions,  *)
(* and no rescaling or centering is applied when fixed is non-empty.       *)
(***************************************************************************)
C18_FixedNodesStay ==
    (op.name = "_fruchterman_reingold_layout" /\ op.fixed # {}) =>
        /\ \A i \in op.fixed : Val(ret)[i] = op.initial[i]
        /\ op.fixed = Nodes(self.N) => Val(ret) = op.initial
        /\ op.pos # << >> => \A i \in op.fixed : Val(ret)[i] = Val(op.pos)[i]

\* One round on two joined nodes given at 0 and 1/2, node 0 fixed: node 1
\* moved and node 0 did not.
C18_Witness ==
    /\ op.name = "_fruchterman_reingold_layout"
    /\ op.iterations = 1 /\ op.fixed = {0} /\ op.pos # << >>
    /\ self.N = 2 /\ self.A[0][1]
    /\ op.initial[0] = <<0, 1>> /\ op.initial[1] = <<1, 2>>
    /\ Val(ret)[0] = <<0, 1>> /\ Val(ret)[1] # <<1, 2>>

(***************************************************************************)
(* C19.  When no node is fixed, the final rescaling centres the axis at    *)
(* its mean and puts every coordinate of every node inside                 *)
(* [-scale, scale], for every graph with N >= 1 nodes and every set of     *)
(* positions.                                                              *)
(***************************************************************************)
C19_RescaledInsideScale ==
    (op.name = "_fruchterman_reingold_layout" /\ op.fixed = {}) =>
        /\ \A i \in Nodes(self.N) :
               /\ Val(ret)[i][2] > 0
               /\ ~QLess(Val(ret)[i], QInt(-op.scale))
               /\ ~QLess(QInt(op.scale), Val(ret)[i])
        /\ \A i \in Nodes(self.N) : Val(ret)[i][2] > 0
               => QSum(Val(ret), self.N) = Zero

C22_SmallGraphsConnected ==
    (op.name = "is_connected" /\ self.N <= 1) => (err = "none" /\ ret = <<TRUE>>)


(***************************************************************************)
(* C23.  An unrecognized kind is rejected: compute_laplacian with a kind   *)
(* other than 'combinatorial' or 'normalized', and set_coordinates with a  *)
(* string that names no layout, each raise ValueError and assign nothing:  *)
(* L, lap_type, coords and every other attribute stay as they were.        *)
(***************************************************************************)
C23_UnknownKindRejected ==
    [][/\ (op'.name = "compute_laplacian" /\ op'.lap_type \notin LapKinds)
              => (err' = "ValueError" /\ self' = self)
       /\ (/\ op'.name = "set_coordinates"
           /\ "str" \in DOMAIN op'.kind
           /\ op'.kind.str \notin LayoutNames)
              => (err' = "ValueError" /\ self' = self)]_vars

\* set_coordinates('other') raised on a graph built with coordinates, which
\* it still has.
C23_Witness ==
    /\ op = [name |-> "set_coordinates", kind |-> [str |-> "other"]]
    /\ err = "ValueError"
    /\ HasAttr(self.coords) /\ Val(self.coords).data = "constructor"
    /\ HasAttr(self.L) /\ self.lap_type = "combinatorial"


(***************************************************************************)
(* C24.  set_coordinates given an array accepts it, storing it as coords,  *)
(* exactly when it has N rows and is 1-D or has 2 or 3 columns, for every  *)
(* N >= 1; any other shape raises ValueError and leaves coords unchanged.  *)
(***************************************************************************)
C24_ArrayShapes ==
    [][(op'.name = "set_coordinates" /\ "shape" \in DOMAIN op'.kind) =>
          LET shape == op'.kind.shape
          IN  IF /\ Len(shape) \in {1, 2}
                 /\ shape[1] = self.N
                 /\ Len(shape) = 2 => shape[2] \in {2, 3}
              THEN /\ err' = "none"
                   /\ HasAttr(self'.coords)
                   /\ Val(self'.coords).data = "given"
                   /\ Val(self'.coords).shape = shape
              ELSE /\ err' = "ValueError"
                   /\ self'.coords = self.coords]_vars

(***************************************************************************)
(* C29.  set_coordinates('community2D') on a graph that has no community   *)
(* assignments (no info attribute, or info without 'node_com') raises      *)
(* ValueError before modifying info or coords.                             *)
(***************************************************************************)
C29_CommunityNeedsNodeCom ==
    [][(/\ op'.name = "set_coordinates"
        /\ op'.kind = [str |-> "community2D"]
        /\ (~HasAttr(self.info) \/ "node_com" \notin DOMAIN Val(self.info)))
          => /\ err' = "ValueError"
             /\ self'.info = self.info
             /\ self'.coords = self.coords]_vars


(***************************************************************************)
(* C25.  The connectivity traversal is deterministic in its result: for a  *)
(* fixed weight matrix, is_connected returns the same boolean whatever     *)
(* order the frontier set pops its nodes in.  Each traversal ends with the *)
(* set of the nodes that node 0 reaches in the matrix traversed, and the   *)
(* value returned is the one that W fixes.                                 *)
(***************************************************************************)
C25_ResultFreeOfPopOrder ==
    /\ (op.name = "is_connected" /\ op.step = "pop" /\ op.stack = {}) =>
           op.visited = Within(IF Head(op.todo) = "A.T"
                               THEN Transpose(self.W, self.N) ELSE self.W,
                               self.N, 0, self.N)
    /\ (op.name = "is_connected" /\ op.step = "return" /\ err = "none") =>
           ret = <<AllReachAll(self.W, self.N)>>

\* On the symmetric graph with the edges 0 - 1 and 0 - 2 the frontier held
\* nodes 1 and 2 at once, and node 2 was popped first.
C25_Witness ==
    /\ op.name = "is_connected" /\ op.step = "return"
    /\ self.N = 3 /\ self.A[0][1] /\ self.A[0][2] /\ ~self.A[1][2]
    /\ op.marked = <<0, 2, 1>>
    /\ ret = <<TRUE>>


(***************************************************************************)
(* C28.  In the traversals of is_connected and extract_components, the     *)
(* frontier never contains an already-visited node, each node is popped    *)
(* and marked visited at most once, and the loop terminates after at most  *)
(* N pops for every graph, including graphs with cycles and self-loops.    *)
(***************************************************************************)
C28_FrontierBounded ==
    "step" \in DOMAIN op =>
        /\ op.stack \cap op.visited = {}
        /\ Cardinality(Range(op.marked)) = Len(op.marked)
        /\ op.pops <= self.N


(***************************************************************************)
(* C26.  In the force-directed loop with iterations >= 1, the temperature  *)
(* is 0.1 in the first round, drops by dt = 0.1 / (iterations + 1) after   *)
(* each round, is strictly positive in every round, and the temperature    *)
(* applied in the last round equals dt.                                    *)
(***************************************************************************)
C26_TemperatureSchedule ==
    (op.name = "_sparse_fruchterman_reingold" /\ op.applied # << >>) =>
        LET dt == QDiv(<<1, 10>>, QInt(op.iterations + 1))
        IN  /\ op.applied[1] = <<1, 10>>
            /\ \A r \in 1 .. (Len(op.applied) - 1) :
                   op.applied[r + 1] = QSub(op.applied[r], dt)
            /\ \A r \in DOMAIN op.applied : QLess(Zero, op.applied[r])
            /\ Len(op.applied) = op.iterations => op.applied[op.iterations] = dt


(***************************************************************************)
(* C27.  lap_type always names the kind of the stored L: when              *)
(* compute_laplacian raises (unknown kind, or 'normalized' on a directed   *)
(* graph), both lap_type and L keep the values they had before the call.   *)
(***************************************************************************)
C27_RaiseKeepsLaplacian ==
    [][(op'.name = "compute_laplacian" /\ err' # "none") =>
           (self'.lap_type = self.lap_type /\ self'.L = self.L)]_vars

====
